---- MODULE Spec2Model ----
(***************************************************************************)
(* A model of pyms_agilent.xml_parser.core: the XMLList container          *)
(* (construction, from_xml, _append_from_element), the enum helper         *)
(* _get_from_enum and the field-mapping function tag2dict; and of          *)
(* pyms_agilent.metadata.extract_metadata, as its specification and its    *)
(* tests describe it.                                                      *)
(*                                                                         *)
(* Text is modelled as a sequence of one-character strings, so that the    *)
(* conversions the code performs (int(), float(), str(), re.sub,           *)
(* camel_to_snake) are computed character by character.  An element's      *)
(* text of None (lxml gives None for an element without text) is the      *)
(* empty sequence.                                                         *)
(***************************************************************************)
EXTENDS Integers, Sequences, FiniteSets, TLC

VARIABLES
    lpc,       \* XMLList object: "new" (not constructed) or "live"
    version,   \* XMLList.version
    data,      \* the list's records (UserList.data)
    init0,     \* ghost: the records the list was constructed with
    expect,    \* ghost: the matching children of the returned calls, in call order
    nmatch,    \* ghost: how many children matched, summed over the returned calls
    ncalls,    \* ghost: how many _append_from_element calls were issued
    lerr,      \* the exception the last list operation raised, "" when it returned
    lop,       \* ghost: the last list operation: "", "new", "from_xml", "append"
    lroot,     \* ghost: the element from_xml was handed, when it was the last operation
    broke,     \* ghost: TRUE once an _append_from_element call raised
    lcall,     \* ghost: the last _append_from_element call: its element's size, its
               \* matching children, the match whose construction raised (0: none)
               \* and how many records class_.from_xml was asked to construct
    epc,       \* _get_from_enum driver: "in", "once", "twice"
    evalue,    \* _get_from_enum argument value
    eenum,     \* _get_from_enum argument enum
    etype,     \* _get_from_enum argument type_
    eret,      \* result of the first _get_from_enum call
    eret2,     \* result of _get_from_enum applied to the first result
    tpc,       \* tag2dict driver: "in", "done", "rekeyed"
    element,   \* tag2dict argument element: its direct children, in document order
    camel_lookup, \* tag2dict argument camel_lookup
    xmlns,     \* tag2dict argument xmlns
    tret,      \* result of tag2dict
    keys,      \* the canonical key computed for each child, in document order
    keys2,     \* the canonical keys of the canonical keys
    mpc,       \* extract_metadata: "in", "valid", "done", "failed"
    mpath,     \* extract_metadata argument: its type, and what the path names
    mfiles,    \* the state of each metadata file in the directory
    mreads,    \* the metadata files read so far, in order
    mout,      \* the mapping under construction: the logical names inserted
    mret,      \* the mapping extract_metadata returned, when it returned
    merr       \* the exception extract_metadata raised, "" when none

lvars == <<lpc, version, data, init0, expect, nmatch, ncalls, lerr, lop, lroot, broke, lcall>>
evars == <<epc, evalue, eenum, etype, eret, eret2>>
tvars == <<tpc, element, camel_lookup, xmlns, tret, keys, keys2>>
mvars == <<mpc, mpath, mfiles, mreads, mout, mret, merr>>
vars == <<lvars, evars, tvars, mvars>>

----------------------------------------------------------------------------
(* Bounds of the model. *)

\* most direct children of an element handed to _append_from_element
MaxKids == 2
\* most _append_from_element calls on the one list
MaxCalls == 2
\* most direct children of an element handed to tag2dict
MaxTags == 2

----------------------------------------------------------------------------
(* Characters and Python values. *)

UpperChars == {"A", "B", "I", "O", "V", "X"}
LowerChars == {"a", "b", "e", "f", "h", "i", "k", "l", "m", "n", "o", "r", "s", "t", "u", "v", "x", "y"}
DigitChars == {"0", "1", "2", "3", "4", "5", "6", "7", "8", "9"}

DigitVal(c) ==
    CASE c = "0" -> 0 [] c = "1" -> 1 [] c = "2" -> 2 [] c = "3" -> 3 [] c = "4" -> 4
      [] c = "5" -> 5 [] c = "6" -> 6 [] c = "7" -> 7 [] c = "8" -> 8 [] c = "9" -> 9

DigitChar(d) ==
    CASE d = 0 -> "0" [] d = 1 -> "1" [] d = 2 -> "2" [] d = 3 -> "3" [] d = 4 -> "4"
      [] d = 5 -> "5" [] d = 6 -> "6" [] d = 7 -> "7" [] d = 8 -> "8" [] d = 9 -> "9"

\* Python values: t is the type; n an int's value or a float's mantissa, e a
\* float's decimal exponent, s a str's characters, c/m an enum member's class
\* and member name.
PyNone == [t |-> "None", n |-> 0, e |-> 0, s |-> <<>>, c |-> <<>>, m |-> <<>>]
PyInt(n) == [t |-> "int", n |-> n, e |-> 0, s |-> <<>>, c |-> <<>>, m |-> <<>>]
PyFloat(n, e) == [t |-> "float", n |-> n, e |-> e, s |-> <<>>, c |-> <<>>, m |-> <<>>]
PyStr(s) == [t |-> "str", n |-> 0, e |-> 0, s |-> s, c |-> <<>>, m |-> <<>>]
PyMember(c, m) == [t |-> "enum", n |-> 0, e |-> 0, s |-> <<>>, c |-> c, m |-> m]

\* The outcome of a call: a returned value, or the exception it raised.
Returned(v) == [ok |-> TRUE, val |-> v, err |-> ""]
Raised(x) == [ok |-> FALSE, val |-> PyNone, err |-> x]

IsDigits(s) == Len(s) > 0 /\ \A i \in 1..Len(s) : s[i] \in DigitChars

RECURSIVE DigitsVal(_)
DigitsVal(s) ==
    IF s = <<>> THEN 0
    ELSE 10 * DigitsVal(SubSeq(s, 1, Len(s) - 1)) + DigitVal(s[Len(s)])

\* The text int() accepts: an optional sign and decimal digits.
IsIntLit(s) ==
    \/ IsDigits(s)
    \/ Len(s) > 1 /\ s[1] \in {"-", "+"} /\ IsDigits(Tail(s))

IntLitVal(s) ==
    IF s[1] = "-" THEN 0 - DigitsVal(Tail(s))
    ELSE IF s[1] = "+" THEN DigitsVal(Tail(s))
    ELSE DigitsVal(s)

\* Positions of "." in s.
Dots(s) == {i \in 1..Len(s) : s[i] = "."}

Unsigned(s) == IF Len(s) > 0 /\ s[1] \in {"-", "+"} THEN Tail(s) ELSE s

\* The text float() accepts: an optional sign, digits with at most one ".",
\* at least one digit.
IsFloatLit(s) ==
    LET u == Unsigned(s)
        d == Dots(u)
    IN /\ Cardinality(d) <= 1
       /\ \A i \in 1..Len(u) : u[i] \in DigitChars \cup {"."}
       /\ Len(u) > Cardinality(d)

RECURSIVE Normal(_, _)
\* mantissa and exponent without trailing decimal zeros
Normal(n, e) ==
    IF n = 0 THEN <<0, 0>>
    ELSE IF e < 0 /\ n % 10 = 0 THEN Normal(n \div 10, e + 1)
    ELSE <<n, e>>

FloatLitVal(s) ==
    LET u == Unsigned(s)
        d == Dots(u)
        p == IF d = {} THEN Len(u) + 1 ELSE CHOOSE i \in d : TRUE
        digits == SubSeq(u, 1, p - 1) \o SubSeq(u, p + 1, Len(u))
        mag == DigitsVal(digits)
        frac == IF d = {} THEN 0 ELSE Len(u) - p
        ne == Normal(mag, 0 - frac)
    IN PyFloat(IF Len(s) > 0 /\ s[1] = "-" THEN 0 - ne[1] ELSE ne[1], ne[2])

RECURSIVE Pow10(_)
Pow10(k) == IF k = 0 THEN 1 ELSE 10 * Pow10(k - 1)

\* int() of a Python float: truncation toward zero.
FloatToInt(f) ==
    LET mag == IF f.n < 0 THEN 0 - f.n ELSE f.n
        q == mag \div Pow10(0 - f.e)
    IN IF f.n < 0 THEN 0 - q ELSE q

----------------------------------------------------------------------------
(* lxml.objectify elements.  A child is its tag, its text (<<>> for None),  *)
(* whether it has child elements, and whether it carries xsi:nil="true".  *)

Child(tag, text, kids, nil) == [tag |-> tag, text |-> text, kids |-> kids, nil |-> nil]
Leaf(tag, text) == Child(tag, text, FALSE, FALSE)

\* The class lxml.objectify's lookup gives an element: the tree class for an
\* element with children, NoneElement for xsi:nil, else the first registered
\* type whose check accepts the text (int, float, bool), else StringElement
\* (also the class of a leaf without text).
ClassOf(ch) ==
    IF ch.kids THEN "ObjectifiedElement"
    ELSE IF ch.nil THEN "NoneElement"
    ELSE IF ch.text = <<>> THEN "StringElement"
    ELSE IF IsIntLit(ch.text) THEN "IntElement"
    ELSE IF IsFloatLit(ch.text) THEN "FloatElement"
    ELSE IF ch.text \in {<<"t", "r", "u", "e">>, <<"f", "a", "l", "s", "e">>} THEN "BoolElement"
    ELSE "StringElement"

\* isinstance(tag, lxml.objectify.<base>): BoolElement derives from IntElement.
IsInstance(ch, base) ==
    \/ ClassOf(ch) = base
    \/ ClassOf(ch) = "BoolElement" /\ base = "IntElement"

----------------------------------------------------------------------------
(* XMLList *)

VersionTag == <<"V", "e", "r", "s", "i", "o", "n">>
ItemTag == <<"I", "t", "e", "m">>
OtherTag == <<"O", "t", "h", "e", "r">>

\* _content_xml_name of the concrete list class
ContentXmlName == ItemTag

\* int(element) for an objectified element: a NumberElement converts its
\* parsed value (a float is truncated, a bool is 0 or 1), a StringElement
\* converts its text, the other classes define no conversion.
ElementInt(ch) ==
    LET cls == ClassOf(ch)
    IN CASE cls = "IntElement" -> Returned(PyInt(IntLitVal(ch.text)))
         [] cls = "FloatElement" -> Returned(PyInt(FloatToInt(FloatLitVal(ch.text))))
         [] cls = "BoolElement" -> Returned(PyInt(IF ch.text = <<"t", "r", "u", "e">> THEN 1 ELSE 0))
         [] cls = "StringElement" ->
                IF ch.text = <<>> THEN Raised("TypeError")
                ELSE IF IsIntLit(ch.text) THEN Returned(PyInt(IntLitVal(ch.text)))
                ELSE Raised("ValueError")
         [] OTHER -> Raised("TypeError")

\* The state of a list operation's outcome.
ListOk(v, d) == [ok |-> TRUE, version |-> v, data |-> d, err |-> ""]
ListErr(x) == [ok |-> FALSE, version |-> 0, data |-> <<>>, err |-> x]

\* XMLList.__init__(version, initlist), given the outcome of int(version)
XMLList_init(conv, initlist) ==
    IF conv.ok THEN ListOk(conv.val.n, initlist) ELSE ListErr(conv.err)

\* element.Version: the first direct child named Version; no such child
\* raises AttributeError.
VersionOf(root) ==
    LET hits == {i \in 1..Len(root) : root[i].tag = VersionTag}
    IN IF hits = {} THEN Raised("AttributeError")
       ELSE [ok |-> TRUE, val |-> root[CHOOSE i \in hits : \A j \in hits : i <= j], err |-> ""]

\* XMLList.from_xml(element): cls(element.Version)
from_xml(root) ==
    LET v == VersionOf(root)
    IN IF v.ok THEN XMLList_init(ElementInt(v.val), <<>>) ELSE ListErr(v.err)

\* element.findall("*"): every direct child, whatever its tag
findallAny(el, name) == el

\* element.findall(name): the direct children with that tag, in document order
findall(el, name) == SelectSeq(el, LAMBDA ch : ch.tag = name)

RECURSIVE AppendLoopFront(_, _, _, _)
\* AppendLoop with each record inserted at the front of the list
AppendLoopFront(d, items, i, f) ==
    IF i > Len(items) THEN [data |-> d, err |-> "", made |-> i - 1]
    ELSE IF i = f THEN [data |-> d, err |-> "RecordError", made |-> i]
    ELSE AppendLoopFront(<<items[i]>> \o d, items, i + 1, f)

RECURSIVE AppendLoopSkip(_, _, _, _)
\* AppendLoop with the failing record skipped and the loop going on
AppendLoopSkip(d, items, i, f) ==
    IF i > Len(items) THEN [data |-> d, err |-> "", made |-> i - 1]
    ELSE IF i = f THEN AppendLoopSkip(d, items, i + 1, f)
    ELSE AppendLoopSkip(Append(d, items[i]), items, i + 1, f)

RECURSIVE AppendLoop(_, _, _, _)
\* The loop of _append_from_element over make_from_element's generator:
\* item i is constructed by class_.from_xml and appended; when constructing
\* item f raises, the loop ends there with what was appended before.  made
\* counts the calls of class_.from_xml.
AppendLoop(d, items, i, f) ==
    IF i > Len(items) THEN [data |-> d, err |-> "", made |-> i - 1]
    ELSE IF i = f THEN [data |-> d, err |-> "RecordError", made |-> i]
    ELSE AppendLoop(Append(d, items[i]), items, i + 1, f)

\* XMLList._append_from_element(element); f is the index of the first match
\* on which the record class's from_xml raises, 0 when it raises on none.
append_from_element(d, el, f) == AppendLoop(d, findall(el, ContentXmlName), 1, f)

\* The children an element handed to _append_from_element may hold.
Kids == {Leaf(ItemTag, <<"1">>), Leaf(ItemTag, <<"2">>), Leaf(OtherTag, <<"1">>)}

RECURSIVE SeqsUpTo(_, _)
SeqsUpTo(S, n) ==
    IF n = 0 THEN {<<>>}
    ELSE LET shorter == SeqsUpTo(S, n - 1)
         IN shorter \cup {Append(q, x) : q \in shorter, x \in S}

\* The root elements handed to from_xml: no Version child, or a Version child
\* of each class, alone or after another child.
VersionKids ==
    {Leaf(VersionTag, <<"2">>), Leaf(VersionTag, <<"1", "0">>), Leaf(VersionTag, <<"1", ".", "5">>),
     Leaf(VersionTag, <<"t", "r", "u", "e">>), Leaf(VersionTag, <<"a", "b">>),
     Leaf(VersionTag, <<>>), Child(VersionTag, <<>>, FALSE, TRUE),
     Child(VersionTag, <<>>, TRUE, FALSE)}
Roots ==
    {<<>>, <<Leaf(ItemTag, <<"1">>)>>}
      \cup {<<v>> : v \in VersionKids}
      \cup {<<Leaf(ItemTag, <<"1">>), v>> : v \in VersionKids}
      \cup {<<Leaf(VersionTag, <<"2">>), Leaf(VersionTag, <<"3">>)>>}

InitLists == {<<>>, <<Leaf(ItemTag, <<"2">>)>>}

NoAppend == [n |-> 0, items |-> <<>>, f |-> 0, made |-> 0]

ListInit ==
    /\ lpc = "new" /\ version = 0 /\ data = <<>> /\ init0 = <<>> /\ expect = <<>>
    /\ nmatch = 0 /\ ncalls = 0 /\ lerr = "" /\ lop = "" /\ lroot = <<>> /\ broke = FALSE
    /\ lcall = NoAppend

\* XMLList(version, initlist) with a Python int
New(v, initlist) ==
    /\ lpc = "new"
    /\ LET r == XMLList_init(Returned(PyInt(v)), initlist)
       IN /\ lpc' = "live"
          /\ version' = r.version
          /\ data' = r.data
          /\ init0' = initlist
          /\ lerr' = ""
    /\ lop' = "new"
    /\ UNCHANGED <<lroot, expect, nmatch, ncalls, broke, lcall, evars, tvars, mvars>>

\* XMLList.from_xml(root)
FromXml(root) ==
    /\ lpc = "new"
    /\ LET r == from_xml(root)
       IN /\ lpc' = IF r.ok THEN "live" ELSE "new"
          /\ version' = r.version
          /\ data' = r.data
          /\ init0' = <<>>
          /\ lerr' = r.err
    /\ lop' = "from_xml"
    /\ lroot' = root
    /\ UNCHANGED <<expect, nmatch, ncalls, broke, lcall, evars, tvars, mvars>>

\* _append_from_element that also assigns the version attribute
AppendFromElementReset(el, f) ==
    /\ lpc = "live"
    /\ ncalls < MaxCalls
    /\ LET r == append_from_element(data, el, f)
       IN /\ data' = r.data
          /\ lerr' = r.err
          /\ broke' = (broke \/ r.err # "")
          /\ version' = Len(r.data)
          /\ expect' = IF r.err = "" THEN expect \o SelectSeq(el, LAMBDA ch : ch.tag = ContentXmlName)
                       ELSE expect
          /\ nmatch' = IF r.err = "" THEN nmatch + Cardinality({i \in 1..Len(el) : el[i].tag = ContentXmlName})
                       ELSE nmatch
          /\ lcall' = [n |-> Len(el), items |-> SelectSeq(el, LAMBDA ch : ch.tag = ContentXmlName),
                       f |-> f, made |-> r.made]
    /\ ncalls' = ncalls + 1
    /\ lop' = "append"
    /\ lroot' = <<>>
    /\ UNCHANGED <<lpc, init0, evars, tvars, mvars>>

\* lst._append_from_element(el)
AppendFromElement(el, f) ==
    /\ lpc = "live"
    /\ ncalls < MaxCalls
    /\ LET r == append_from_element(data, el, f)
       IN /\ data' = r.data
          /\ lerr' = r.err
          /\ broke' = (broke \/ r.err # "")
          /\ expect' = IF r.err = "" THEN expect \o SelectSeq(el, LAMBDA ch : ch.tag = ContentXmlName)
                       ELSE expect
          /\ nmatch' = IF r.err = "" THEN nmatch + Cardinality({i \in 1..Len(el) : el[i].tag = ContentXmlName})
                       ELSE nmatch
          /\ lcall' = [n |-> Len(el), items |-> SelectSeq(el, LAMBDA ch : ch.tag = ContentXmlName),
                       f |-> f, made |-> r.made]
    /\ ncalls' = ncalls + 1
    /\ lop' = "append"
    /\ lroot' = <<>>
    /\ UNCHANGED <<lpc, version, init0, evars, tvars, mvars>>

ListNext ==
    \/ \E v \in {1, 2}, il \in InitLists : New(v, il)
    \/ \E root \in Roots : FromXml(root)
    \/ \E el \in SeqsUpTo(Kids, MaxKids) :
          \E f \in 0..Len(SelectSeq(el, LAMBDA ch : ch.tag = ContentXmlName)) : AppendFromElement(el, f)

----------------------------------------------------------------------------
(* _get_from_enum *)

\* The enumerations: each a sequence of <<member name, value>> in definition
\* order.  A has int values, B has str values.
EnumA == <<"A">>
EnumB == <<"B">>
EnumDef(c) ==
    IF c = EnumA THEN << <<(<<"x">>), PyInt(1)>>, <<(<<"y">>), PyInt(2)>> >>
    ELSE << <<(<<"x">>), PyStr(<<"1">>)>>, <<(<<"y">>), PyStr(<<"a", "b">>)>> >>

RECURSIVE NatToStr(_)
NatToStr(n) ==
    IF n < 10 THEN <<DigitChar(n)>> ELSE Append(NatToStr(n \div 10), DigitChar(n % 10))

\* str(value)
PyStrOf(v) ==
    CASE v.t = "str" -> v.s
      [] v.t = "int" -> IF v.n < 0 THEN <<"-">> \o NatToStr(0 - v.n) ELSE NatToStr(v.n)
      [] v.t = "None" -> <<"N", "o", "n", "e">>
      [] v.t = "enum" -> v.c \o <<".">> \o v.m

\* type_(value) for type_ in str, int
Coerce(type_, v) ==
    IF type_ = "str" THEN Returned(PyStr(PyStrOf(v)))
    ELSE CASE v.t = "int" -> Returned(v)
           [] v.t = "str" -> IF IsIntLit(v.s) THEN Returned(PyInt(IntLitVal(v.s)))
                             ELSE Raised("ValueError")
           [] OTHER -> Raised("TypeError")

\* enum(v): the member whose value equals v; ValueError when there is none.
EnumCall(c, v) ==
    LET def == EnumDef(c)
        hits == {i \in 1..Len(def) : def[i][2] = v}
    IN IF v.t = "enum" /\ v.c = c THEN Returned(v)
       ELSE IF hits = {} THEN Raised("ValueError")
       ELSE Returned(PyMember(c, def[CHOOSE i \in hits : \A j \in hits : i <= j][1]))

\* _get_from_enum without the isinstance test
get_from_enum_NoTest(value, enum, type_) ==
    LET x == Coerce(type_, value)
    IN IF x.ok THEN [r |-> EnumCall(enum, x.val), co |-> TRUE]
       ELSE [r |-> x, co |-> TRUE]

\* _get_from_enum that falls back to the first member when the lookup fails
get_from_enum_Default(value, enum, type_) ==
    IF value.t = "enum" /\ value.c = enum THEN [r |-> Returned(value), co |-> FALSE]
    ELSE LET x == Coerce(type_, value)
             y == EnumCall(enum, x.val)
         IN IF ~x.ok THEN [r |-> x, co |-> TRUE]
            ELSE IF y.ok THEN [r |-> y, co |-> TRUE]
            ELSE [r |-> Returned(PyMember(enum, EnumDef(enum)[1][1])), co |-> TRUE]

\* _get_from_enum(value, enum, type_); co tells whether type_ was applied

get_from_enum(value, enum, type_) ==
    IF value.t = "enum" /\ value.c = enum THEN [r |-> Returned(value), co |-> FALSE]
    ELSE LET x == Coerce(type_, value)
         IN IF x.ok THEN [r |-> EnumCall(enum, x.val), co |-> TRUE]
            ELSE [r |-> x, co |-> TRUE]

Members(c) == {PyMember(c, EnumDef(c)[i][1]) : i \in 1..Len(EnumDef(c))}

EnumValues ==
    {PyInt(n) : n \in {0 - 1, 0, 1, 2, 3, 12}}
      \cup {PyStr(t) : t \in {<<"1">>, <<"2">>, <<"a", "b">>, <<"x">>, <<"A", ".", "x">>, <<"+", "1">>, <<>>}}
      \cup {PyNone} \cup Members(EnumA) \cup Members(EnumB)

NoCall == [r |-> Raised(""), co |-> FALSE]

EnumIdle ==
    /\ epc = "idle" /\ evalue = PyNone /\ eenum = <<>> /\ etype = "" /\ eret = NoCall /\ eret2 = NoCall

EnumInit ==
    /\ epc = "in"
    /\ evalue \in EnumValues
    /\ eenum \in {EnumA, EnumB}
    /\ etype \in {"str", "int"}
    /\ eret = NoCall /\ eret2 = NoCall

\* member = _get_from_enum(value, enum, type_)
Resolve ==
    /\ epc = "in"
    /\ eret' = get_from_enum(evalue, eenum, etype)
    /\ epc' = "once"
    /\ UNCHANGED <<evalue, eenum, etype, eret2, lvars, tvars, mvars>>

\* _get_from_enum(member, enum, type_) on the member the first call returned
ResolveAgain ==
    /\ epc = "once"
    /\ eret.r.ok
    /\ eret2' = get_from_enum(eret.r.val, eenum, etype)
    /\ epc' = "twice"
    /\ UNCHANGED <<evalue, eenum, etype, eret, lvars, tvars, mvars>>

EnumNext == Resolve \/ ResolveAgain

----------------------------------------------------------------------------
(* tag2dict *)

\* str.lower() of one character
LowerOf(c) ==
    CASE c = "A" -> "a" [] c = "B" -> "b" [] c = "I" -> "i" [] c = "O" -> "o"
      [] c = "V" -> "v" [] c = "X" -> "x" [] OTHER -> c

Lower(s) == [i \in 1..Len(s) |-> LowerOf(s[i])]

\* the end of the run of lower-case letters that starts at position i
RECURSIVE LowerRunEnd(_, _)
LowerRunEnd(s, i) ==
    IF i < Len(s) /\ s[i + 1] \in LowerChars THEN LowerRunEnd(s, i + 1) ELSE i

\* re.sub("(.)([A-Z][a-z]+)", r"\1_\2", s), scanning from position i
RECURSIVE SubBoundary(_, _)
SubBoundary(s, i) ==
    IF i > Len(s) THEN <<>>
    ELSE IF i + 2 <= Len(s) /\ s[i + 1] \in UpperChars /\ s[i + 2] \in LowerChars
         THEN LET j == LowerRunEnd(s, i + 2)
              IN <<s[i], "_">> \o SubSeq(s, i + 1, j) \o SubBoundary(s, j + 1)
    ELSE <<s[i]>> \o SubBoundary(s, i + 1)

\* re.sub("([a-z0-9])([A-Z])", r"\1_\2", s), scanning from position i
RECURSIVE SubSingle(_, _)
SubSingle(s, i) ==
    IF i > Len(s) THEN <<>>
    ELSE IF i + 1 <= Len(s) /\ s[i] \in LowerChars \cup DigitChars /\ s[i + 1] \in UpperChars
         THEN <<s[i], "_", s[i + 1]>> \o SubSingle(s, i + 2)
    ELSE <<s[i]>> \o SubSingle(s, i + 1)

\* mh_utils.utils.camel_to_snake(name)
camel_to_snake(name) == Lower(SubSingle(SubBoundary(name, 1), 1))

\* An optional argument: None, or a value.
None == [given |-> FALSE, val |-> <<>>]
Some(v) == [given |-> TRUE, val |-> v]

\* Whether the regular expression "^{" + ns + "}" matches at the start of
\* tag: "." in ns matches any character, every other character itself.
NsMatches(ns, tag) ==
    LET pat == <<"{">> \o ns \o <<"}">>
    IN /\ Len(tag) >= Len(pat)
       /\ \A i \in 1..Len(pat) : pat[i] = "." \/ pat[i] = tag[i]

\* the namespace strip done by cutting len("{" + ns + "}") characters off
\* the tag without looking at them
StripNsBlind(ns, tag) ==
    IF ns.given /\ ns.val # <<>> THEN SubSeq(tag, Len(ns.val) + 3, Len(tag)) ELSE tag

\* lines 120-123: the tag without the namespace prefix
StripNs(ns, tag) ==
    IF ns.given /\ ns.val # <<>>
    THEN IF NsMatches(ns.val, tag) THEN SubSeq(tag, Len(ns.val) + 3, Len(tag)) ELSE tag
    ELSE tag

\* dict.get(key, default) on a dict kept as a sequence of <<key, value>> pairs
DictGet(d, k, default) ==
    LET hits == {i \in 1..Len(d) : d[i][1] = k}
    IN IF hits = {} THEN default ELSE d[CHOOSE i \in hits : TRUE][2]

\* d.setdefault(k, v): the first value filed under a key stays
DictSetFirst(d, k, v) ==
    IF \E i \in 1..Len(d) : d[i][1] = k THEN d ELSE Append(d, <<k, v>>)

\* d[k] = v: a new key is inserted last, an old key keeps its place
DictSet(d, k, v) ==
    IF \E i \in 1..Len(d) : d[i][1] = k
    THEN [i \in 1..Len(d) |-> IF d[i][1] = k THEN <<k, v>> ELSE d[i]]
    ELSE Append(d, <<k, v>>)

\* lines 120-128: the key tag2dict files a child under
CanonicalKey(tag, lookup, ns) ==
    LET tag_name == StripNs(ns, tag)
    IN IF lookup.given THEN DictGet(lookup.val, tag_name, camel_to_snake(tag_name))
       ELSE camel_to_snake(tag_name)

\* lines 130-137: the value tag2dict stores for a child
ChildValue(ch) ==
    IF IsInstance(ch, "IntElement")
    THEN IF ch.text = <<>> THEN Raised("TypeError")
         ELSE IF IsIntLit(ch.text) THEN Returned(PyInt(IntLitVal(ch.text)))
         ELSE Raised("ValueError")
    ELSE IF IsInstance(ch, "StringElement")
    THEN Returned(PyStr(PyStrOf(IF ch.text = <<>> THEN PyNone ELSE PyStr(ch.text))))
    ELSE IF IsInstance(ch, "FloatElement")
    THEN IF ch.text = <<>> THEN Raised("TypeError")
         ELSE IF IsFloatLit(ch.text) THEN Returned(FloatLitVal(ch.text))
         ELSE Raised("ValueError")
    ELSE Returned(IF ch.text = <<>> THEN PyNone ELSE PyStr(ch.text))

DictOk(d) == [ok |-> TRUE, dict |-> d, err |-> ""]
DictErr(x) == [ok |-> FALSE, dict |-> <<>>, err |-> x]

RECURSIVE Tag2dictLoop(_, _, _, _, _)
\* the loop of tag2dict from child i on, output_dict being d
Tag2dictLoop(el, lookup, ns, i, d) ==
    IF i > Len(el) THEN DictOk(d)
    ELSE LET k == CanonicalKey(el[i].tag, lookup, ns)
             v == ChildValue(el[i])
         IN IF v.ok THEN Tag2dictLoop(el, lookup, ns, i + 1, DictSet(d, k, v.val))
            ELSE DictErr(v.err)

\* tag2dict(element, camel_lookup, xmlns)
tag2dict(el, lookup, ns) == Tag2dictLoop(el, lookup, ns, 1, <<>>)

\* The children of the elements handed to tag2dict.
TagAb == <<"A", "b">>
TagKids ==
    {Leaf(TagAb, <<"1", "2">>),
     Leaf(<<"a", "b">>, <<"1", ".", "5">>),
     Leaf(<<"{", "n", "}", "A", "b">>, <<"a", "b">>),
     Leaf(<<"A", "B", "x">>, <<"t", "r", "u", "e">>),
     Leaf(<<"X">>, <<>>),
     Child(TagAb, <<>>, FALSE, TRUE),
     Child(<<"X">>, <<>>, TRUE, FALSE),
     Child(<<"x", "B">>, <<"a", "b">>, TRUE, FALSE),
     Leaf(<<"{", "a", "x", "b", "}", "A", "b">>, <<"2">>),
     Leaf(<<"{", "a", ".", "b", "}", "A", "b">>, <<"a", "b">>)}

\* The override tables and namespaces handed to tag2dict.
Lookups ==
    {None, Some(<<>>), Some(<< <<(<<"X">>), TagAb>> >>),
     Some(<< <<(<<"X">>), <<"x", "_", "k">> >>, <<TagAb, <<"X">> >> >>)}
Namespaces == {None, Some(<<>>), Some(<<"n">>), Some(<<"a", ".", "b">>)}

TagIdle ==
    /\ tpc = "idle" /\ element = <<>> /\ camel_lookup = None /\ xmlns = None
    /\ tret = DictErr("") /\ keys = <<>> /\ keys2 = <<>>

TagInit ==
    /\ tpc = "in"
    /\ element \in SeqsUpTo(TagKids, MaxTags)
    /\ camel_lookup \in Lookups
    /\ xmlns \in Namespaces
    /\ tret = DictErr("") /\ keys = <<>> /\ keys2 = <<>>

\* tag2dict(element, camel_lookup, xmlns)
Tag2dict ==
    /\ tpc = "in"
    /\ tret' = tag2dict(element, camel_lookup, xmlns)
    /\ keys' = [i \in 1..Len(element) |-> CanonicalKey(element[i].tag, camel_lookup, xmlns)]
    /\ tpc' = "done"
    /\ UNCHANGED <<element, camel_lookup, xmlns, keys2, lvars, evars, mvars>>

\* the canonical keys, taken as tag names and keyed again
Rekey ==
    /\ tpc = "done"
    /\ keys2' = [i \in 1..Len(keys) |-> CanonicalKey(keys[i], camel_lookup, xmlns)]
    /\ tpc' = "rekeyed"
    /\ UNCHANGED <<element, camel_lookup, xmlns, tret, keys, lvars, evars, mvars>>

TagNext == Tag2dict \/ Rekey

----------------------------------------------------------------------------
(* extract_metadata *)

\* The logical metadata files, in the order the mapping lists them.
LogicalFiles ==
    <<"AcqMethod", "Contents", "DefaultMassCal", "DeviceConfigInfo", "Devices",
      "MSActualDefs", "MSTS", "sample_info">>

LogicalNames == {LogicalFiles[i] : i \in 1..Len(LogicalFiles)}

\* The arguments: a number, or a path that names nothing, a file or a
\* directory, with or without the datafile extension.
Paths ==
    {[type |-> "number", isdir |-> FALSE, ext |-> FALSE]}
      \cup {[type |-> "path", isdir |-> d, ext |-> x] : d, x \in BOOLEAN}

\* is_datafile(path): an existing directory named with the datafile extension
is_datafile(path) == path.isdir /\ path.ext

\* What the input validation of extract_metadata raises: TypeError for an
\* argument that is no path, ValueError for a path that is no datafile.
Validation(path) ==
    IF path.type # "path" THEN "TypeError"
    ELSE IF ~is_datafile(path) THEN "ValueError"
    ELSE ""

\* extract_metadata with the files read before the argument is validated
ReadsAllowedEarly == mpc \in {"in", "valid"}

\* whether extract_metadata has come to reading the metadata files
ReadsAllowed == mpc = "valid"

\* extract_metadata that leaves a missing file out of the mapping
OnFileSparse(status) ==
    CASE status = "ok" -> "insert" [] status = "missing" -> "skip" [] OTHER -> "ParseError"

\* What a metadata file does to the call: a parsed file is inserted, a
\* missing file or one its parser fails on ends the call with that error.
OnFile(status) ==
    CASE status = "ok" -> "insert" [] status = "missing" -> "FileNotFoundError" [] OTHER -> "ParseError"

NoMapping == [given |-> FALSE, keys |-> {}]

MetaIdle ==
    /\ mpc = "idle" /\ mpath = [type |-> "number", isdir |-> FALSE, ext |-> FALSE]
    /\ mfiles = [n \in LogicalNames |-> "missing"]
    /\ mreads = <<>> /\ mout = <<>> /\ mret = NoMapping /\ merr = ""

\* A path that names no directory holds no files.
MetaInit ==
    /\ mpc = "in"
    /\ mpath \in Paths
    /\ mfiles \in [LogicalNames -> {"ok", "missing", "malformed"}]
    /\ ~mpath.isdir => \A n \in LogicalNames : mfiles[n] = "missing"
    /\ mreads = <<>> /\ mout = <<>> /\ mret = NoMapping /\ merr = ""

\* the input validation
MetaValidate ==
    /\ mpc = "in"
    /\ merr' = Validation(mpath)
    /\ mpc' = IF Validation(mpath) = "" THEN "valid" ELSE "failed"
    /\ UNCHANGED <<mpath, mfiles, mreads, mout, mret, lvars, evars, tvars>>

\* the next logical file is located, read and parsed
MetaParse ==
    /\ ReadsAllowed
    /\ Len(mreads) < Len(LogicalFiles)
    /\ LET name == LogicalFiles[Len(mreads) + 1]
           what == OnFile(mfiles[name])
       IN /\ mreads' = Append(mreads, name)
          /\ mout' = IF what = "insert" THEN Append(mout, name) ELSE mout
          /\ merr' = IF what \in {"insert", "skip"} THEN merr ELSE what
          /\ mpc' = IF what \in {"insert", "skip"} THEN mpc ELSE "failed"
    /\ UNCHANGED <<mpath, mfiles, mret, lvars, evars, tvars>>

\* every file has been parsed: the mapping is returned
MetaReturn ==
    /\ mpc = "valid"
    /\ Len(mreads) = Len(LogicalFiles)
    /\ mret' = [given |-> TRUE, keys |-> {mout[i] : i \in 1..Len(mout)}]
    /\ mpc' = "done"
    /\ UNCHANGED <<mpath, mfiles, mreads, mout, merr, lvars, evars, tvars>>

MetaNext == MetaValidate \/ MetaParse \/ MetaReturn

----------------------------------------------------------------------------
(* Specifications *)

InitList == ListInit /\ EnumIdle /\ TagIdle /\ MetaIdle
InitEnum == ListInit /\ EnumInit /\ TagIdle /\ MetaIdle
InitTag == ListInit /\ EnumIdle /\ TagInit /\ MetaIdle
InitMeta == ListInit /\ EnumIdle /\ TagIdle /\ MetaInit

\* extract_metadata on every argument of Paths and every state of the files.
SpecMeta == InitMeta /\ [][MetaNext]_vars

\* The list: construction and appends.
SpecList == InitList /\ [][ListNext]_vars

\* _get_from_enum on every input of EnumValues.
SpecEnum == InitEnum /\ [][EnumNext]_vars

\* tag2dict on every element of at most MaxTags children of TagKids.
SpecTag == InitTag /\ [][TagNext]_vars

----------------------------------------------------------------------------
(* Claims about XMLList, under SpecList *)

\* C1: as long as every _append_from_element call has returned, the list
\* holds its initial records followed by the matching children of the calls,
\* call after call and in document order within a call, one record each; so
\* its length is the initial length plus the number of matching children.
C1_AppendConcat ==
    (lpc = "live" /\ ~broke) =>
        /\ data = init0 \o expect
        /\ Len(data) = Len(init0) + nmatch

\* C1 witness: two calls have returned on a list built with one record, and
\* they appended three records, not all alike.
C1_Witness ==
    /\ lpc = "live" /\ ~broke /\ ncalls = 2
    /\ Len(init0) = 1 /\ Len(expect) = 3
    /\ expect[1] # expect[2] /\ expect[2] = expect[3]
    /\ data = init0 \o expect

FirstVersion(root) ==
    LET vs == SelectSeq(root, LAMBDA ch : ch.tag = VersionTag)
    IN IF vs = <<>> THEN <<>> ELSE <<vs[1]>>

\* C10 as claimed: from_xml of a root whose Version is an integer gives an
\* empty list with that version; with Version absent or anything else than an
\* integer (no text, not a number, a non-integer number) it fails and gives no
\* list.
C10_FromXmlClaim ==
    lop = "from_xml" =>
        LET v == FirstVersion(lroot)
        IN IF v # <<>> /\ ~v[1].kids /\ ~v[1].nil /\ IsIntLit(v[1].text)
           THEN lpc = "live" /\ lerr = "" /\ data = <<>> /\ version = IntLitVal(v[1].text)
           ELSE lpc = "new" /\ lerr # ""

\* a step that is an _append_from_element call
IsAppend == lop' = "append" /\ ncalls' = ncalls + 1

\* C11: an _append_from_element call whose element has no child named
\* _content_xml_name raises nothing, constructs no record and leaves the
\* records and the version as they were.
C11_ZeroMatches ==
    [][(IsAppend /\ lcall'.items = <<>>) =>
          (lerr' = "" /\ lcall'.made = 0 /\ data' = data /\ version' = version)]_vars

\* C11 witness: a call on an element of two children, neither of them
\* matching, returned on an empty list, which is still empty.
C11_Witness ==
    /\ lop = "append" /\ lcall.n = 2 /\ lcall.items = <<>> /\ lcall.made = 0
    /\ lerr = "" /\ data = <<>> /\ lpc = "live"

\* C14: when constructing the record of the k-th matching child raises, the
\* call raises that error, class_.from_xml was called k times and no more,
\* the list holds its previous records followed by the k-1 records built
\* before, and the version is unchanged.
C14_FailFast ==
    [][(IsAppend /\ lcall'.f >= 1) =>
          /\ lerr' = "RecordError"
          /\ lcall'.made = lcall'.f
          /\ data' = data \o SubSeq(lcall'.items, 1, lcall'.f - 1)
          /\ version' = version]_vars

\* C14 witness: on a list that already held records, the second of two
\* matching children failed to construct; the first was appended and stays.
C14_Witness ==
    /\ lop = "append" /\ lerr = "RecordError" /\ lcall.f = 2 /\ Len(lcall.items) = 2
    /\ ncalls = 2 /\ Len(data) >= 3 /\ data[Len(data)] = lcall.items[1]

----------------------------------------------------------------------------
(* Claims about _get_from_enum, under SpecEnum *)

\* C3: _get_from_enum applied to the member a first call returned returns that
\* same member; and a value that is already a member of the enumeration is
\* returned unchanged, type_ not being applied to it.
C3_Idempotent ==
    /\ epc = "twice" => (eret2.r = eret.r /\ ~eret2.co)
    /\ (epc # "in" /\ evalue \in Members(eenum)) => (eret.r = Returned(evalue) /\ ~eret.co)

\* C3 witness: an int was coerced and resolved to a member, and the second
\* call was made on that member.
C3_Witness ==
    /\ epc = "twice" /\ evalue.t = "int" /\ eret.co /\ eret.r.ok /\ eret.r.val \in Members(eenum)

\* the members of enumeration c whose value is v
WithValue(c, v) == {PyMember(c, EnumDef(c)[i][1]) : i \in {j \in 1..Len(EnumDef(c)) : EnumDef(c)[j][2] = v}}

\* C4: for a value that is not a member of the enumeration, type_ is applied
\* and the call returns the member whose value is the coerced value; when no
\* member has that value the call raises ValueError and returns no member.
C4_NoDefault ==
    (epc # "in" /\ evalue \notin Members(eenum)) =>
        /\ eret.co
        /\ eret.r.ok =>
              /\ Coerce(etype, evalue).ok
              /\ eret.r.val \in WithValue(eenum, Coerce(etype, evalue).val)
        /\ (Coerce(etype, evalue).ok /\ WithValue(eenum, Coerce(etype, evalue).val) = {}) =>
              (~eret.r.ok /\ eret.r.err = "ValueError")

\* C4 witness: the int 3, coerced, is the value of no member of the
\* enumeration, and the call raised ValueError.
C4_Witness ==
    /\ epc = "once" /\ evalue = PyInt(3) /\ eenum = EnumA /\ etype = "int"
    /\ eret.co /\ ~eret.r.ok /\ eret.r.err = "ValueError"

----------------------------------------------------------------------------
(* Claims about tag2dict, under SpecTag *)

Dict == tret.dict
Children == 1..Len(element)

\* the last child, in document order, filed under key k
LastWith(k) == CHOOSE j \in Children : keys[j] = k /\ \A m \in Children : keys[m] = k => m <= j

\* C5: the mapping tag2dict returns has one entry per distinct canonical key
\* of the children, holding the value of the last child with that key; and
\* two children with one key raise no error: the call returns whenever each
\* child's own value converts.
C5_LastWins ==
    /\ (tpc # "in" /\ tret.ok) =>
          /\ \A i, j \in 1..Len(Dict) : Dict[i][1] = Dict[j][1] => i = j
          /\ {Dict[i][1] : i \in 1..Len(Dict)} = {keys[j] : j \in Children}
          /\ \A i \in 1..Len(Dict) : Dict[i][2] = ChildValue(element[LastWith(Dict[i][1])]).val
    /\ (tpc # "in" /\ \A j \in Children : ChildValue(element[j]).ok) => tret.ok

\* C5 witness: two children with the same canonical key and different values
\* gave a mapping of one entry.
C5_Witness ==
    /\ tpc = "done" /\ tret.ok /\ Len(element) = 2 /\ keys[1] = keys[2]
    /\ ChildValue(element[1]) # ChildValue(element[2])
    /\ Len(Dict) = 1 /\ Dict[1][2] = ChildValue(element[2]).val

\* the text of a child as it is, None when it has none
RawText(ch) == IF ch.text = <<>> THEN PyNone ELSE PyStr(ch.text)

\* C6 as claimed: whatever the classes and texts of the children, tag2dict
\* returns a mapping, and a child that is no integer, float or string leaf
\* has its raw text as value.
C6_NeverFailsClaim ==
    tpc # "in" =>
        /\ tret.ok
        /\ \A j \in Children :
              (j = LastWith(keys[j]) /\ ClassOf(element[j]) \notin {"IntElement", "FloatElement", "StringElement"})
                  => \E i \in 1..Len(Dict) : Dict[i] = <<keys[j], RawText(element[j])>>

\* the value the claim gives a child: by its leaf type, and no text for a
\* leaf without text
ClaimedValue(ch) ==
    IF ch.text = <<>> THEN PyNone
    ELSE CASE ClassOf(ch) = "IntElement" -> PyInt(IntLitVal(ch.text))
           [] ClassOf(ch) = "FloatElement" -> FloatLitVal(ch.text)
           [] OTHER -> PyStr(ch.text)

\* C7 as claimed: in the mapping tag2dict returns, an integer leaf has the
\* integer parsed from its text, a float leaf the float, a string leaf its
\* text, any other child its raw text, and a leaf without text has no text.
C7_ValueByTypeClaim ==
    (tpc # "in" /\ tret.ok) =>
        \A j \in Children :
            j = LastWith(keys[j]) => \E i \in 1..Len(Dict) : Dict[i] = <<keys[j], ClaimedValue(element[j])>>

\* whether the override table has an entry for the name
Overridden(name) == camel_lookup.given /\ \E p \in 1..Len(camel_lookup.val) : camel_lookup.val[p][1] = name

\* whether the name starts with the configured namespace prefix
Prefixed(name) == xmlns.given /\ xmlns.val # <<>> /\ NsMatches(xmlns.val, name)

StrippedLiteral(tag) ==
    LET pre == <<"{">> \o xmlns.val \o <<"}">>
    IN IF xmlns.given /\ xmlns.val # <<>> /\ Len(tag) >= Len(pre) /\ SubSeq(tag, 1, Len(pre)) = pre
       THEN SubSeq(tag, Len(pre) + 1, Len(tag))
       ELSE tag

\* C9 as claimed: the key of a child is the override table's entry for its
\* tag name without the namespace prefix, when a table is given and has one,
\* and else camel_to_snake of that name; the prefix stripped is the
\* configured namespace and no other.
C9_KeyOrderClaim ==
    tpc # "in" =>
        \A j \in Children :
            LET name == StrippedLiteral(element[j].tag)
            IN keys[j] = IF Overridden(name)
                         THEN camel_lookup.val[CHOOSE p \in 1..Len(camel_lookup.val) : camel_lookup.val[p][1] = name][2]
                         ELSE camel_to_snake(name)

----------------------------------------------------------------------------
(* extract_metadata: the claims *)

\* the call has ended, by returning or by raising
MetaEnded == mpc \in {"done", "failed"}

\* the files of the directory that are missing or that their parser fails on
BadFiles == {n \in LogicalNames : mfiles[n] # "ok"}

\* C12: extract_metadata is all-or-nothing over the eight logical files.  A
\* call that returns, returns a mapping whose key set is exactly the eight
\* logical names; and on a datafile of which any one file is missing or
\* fails to parse the call ends by raising the error of a file, with no
\* mapping returned, so that no mapping with fewer keys is ever returned.
C12_AllOrNothing ==
    /\ mpc = "done" <=> mret.given
    /\ mret.given => (mret.keys = LogicalNames /\ Cardinality(mret.keys) = 8 /\ merr = "")
    /\ (MetaEnded /\ Validation(mpath) = "" /\ BadFiles # {}) =>
          /\ mpc = "failed"
          /\ merr \in {"FileNotFoundError", "ParseError"}
          /\ ~mret.given

\* C12 witness: on a datafile whose DeviceConfigInfo file alone is missing the
\* call has failed on that file, after parsing the three files before it, and
\* has returned nothing.
C12_Witness ==
    /\ mpc = "failed" /\ merr = "FileNotFoundError" /\ is_datafile(mpath)
    /\ BadFiles = {"DeviceConfigInfo"} /\ mfiles["DeviceConfigInfo"] = "missing"
    /\ mout = <<"AcqMethod", "Contents", "DefaultMassCal">>
    /\ ~mret.given

\* the errors of the input validation
ValidationErrors == {"TypeError", "ValueError"}

\* a call that got past its validation was given a datafile: a refused
\* argument ended the call with the error of its kind and nothing read
Validated ==
    /\ (mpc \notin {"idle", "in"} /\ mpath.type # "path") =>
          (mpc = "failed" /\ merr = "TypeError" /\ mreads = <<>>)
    /\ (mpc \notin {"idle", "in"} /\ mpath.type = "path" /\ ~is_datafile(mpath)) =>
          (mpc = "failed" /\ merr = "ValueError" /\ mreads = <<>>)
    /\ mreads # <<>> => Validation(mpath) = ""

\* a step that raises a validation error has no file read before it
NoReadBefore ==
    (merr' \in ValidationErrors /\ merr # merr') => (mreads = <<>> /\ mreads' = <<>>)

\* C13: the input validation of extract_metadata precedes all file access.
\* An argument of the wrong type ends the call with a type error, a path that
\* is no existing directory named with the datafile extension ends it with
\* the value error of an unrecognized datafile, in both cases with no
\* metadata file read; and no step raises a validation error after a read.
C13_ValidateFirst == []Validated /\ [][NoReadBefore]_vars

\* C13 witness: a directory that holds all eight files but is not named with
\* the datafile extension was refused with the value error, none of its
\* files read.
C13_Witness ==
    /\ mpc = "failed" /\ merr = "ValueError"
    /\ mpath = [type |-> "path", isdir |-> TRUE, ext |-> FALSE]
    /\ BadFiles = {} /\ mreads = <<>> /\ mout = <<>>

====
